---- MODULE Spec2Model ----
(***************************************************************************)
(* winroute: route aggregation, filtering and batch deletion over the OS   *)
(* routing table (route.go, the interface cache and the Route type), and   *)
(* the wroute command-line front end.                                      *)
(*                                                                         *)
(* The OS facilities (adapter enumeration, index -> LUID conversion,       *)
(* routing-table enumeration, add, delete) are external; they are the      *)
(* os* / list* operators below, with the outcomes section 6 of the design  *)
(* gives them.  Strings that the code inspects character by character      *)
(* (interface aliases, lookup tokens) are sequences of one-character       *)
(* strings; prefixes and addresses are compared only for equality and are  *)
(* plain strings.  Description, Protocol and Origin are copied from the OS  *)
(* records and never read; they are left out.                              *)
(***************************************************************************)
EXTENDS Integers, Sequences, FiniteSets, TLC

VARIABLES adapters, table, pre, pc, last

vars == <<adapters, table, pre, pc, last>>

----------------------------------------------------------------------------
(* Bounds *)

MaxRoutes == 3       \* rows the routing table may hold
MaxOpts == 2         \* length of an option / filter list
MaxLen == 2          \* length of a lookup token
MaxAdapters == 2     \* adapters the OS enumerates (findInterface runs)

----------------------------------------------------------------------------
(* Universe of values *)

Dests == {"10.0.0.0/8", "10.1.0.0/16"}
NextHops == {"0.0.0.0", "10.0.0.1"}
Metrics == {0, 5}
Chars == {"0", "1", "e", "E"}
Digits == {"0", "1"}

\* the largest uint32, 4294967295, as 10 * MaxUint32Div10 + MaxUint32Mod10
MaxUint32Div10 == 429496729
MaxUint32Mod10 == 5

DigitVal(c) == IF c = "1" THEN 1 ELSE 0

\* unicode.ToLower on the characters of the model
LowerChar(c) == IF c = "E" THEN "e" ELSE c

\* strings.ToLower
ToLower(s) == [i \in 1..Len(s) |-> LowerChar(s[i])]

\* strings.EqualFold
EqualFold(s, t) ==
    /\ Len(s) = Len(t)
    /\ \A i \in 1..Len(s) : LowerChar(s[i]) = LowerChar(t[i])

\* strconv.ParseUint(s, 10, 32): [ok, val]
RECURSIVE ParseDigits(_, _, _)
ParseDigits(s, i, acc) ==
    IF i > Len(s) THEN [ok |-> TRUE, val |-> acc]
    ELSE IF s[i] \notin Digits THEN [ok |-> FALSE, val |-> 0]
    ELSE IF \/ acc > MaxUint32Div10
            \/ acc = MaxUint32Div10 /\ DigitVal(s[i]) > MaxUint32Mod10
         THEN [ok |-> FALSE, val |-> 0]
    ELSE ParseDigits(s, i + 1, acc * 10 + DigitVal(s[i]))

ParseUint(s) == IF Len(s) = 0 THEN [ok |-> FALSE, val |-> 0] ELSE ParseDigits(s, 1, 0)

----------------------------------------------------------------------------
(* Errors: the message chain, the sentinels errors.Is finds in the chain,  *)
(* and the context values formatted into the message.                      *)

Nil == [msgs |-> <<>>, is |-> {}, ctx |-> <<>>]

OsError(name) == [msgs |-> <<name>>, is |-> {name}, ctx |-> <<>>]

ErrNotFound == [msgs |-> <<"not found">>, is |-> {"ErrNotFound"}, ctx |-> <<>>]

\* fmt.Errorf(msg + ": %w", ctx..., inner)
Errorf(msg, ctx, inner) ==
    [msgs |-> <<msg>> \o inner.msgs, is |-> inner.is, ctx |-> ctx \o inner.ctx]

\* fmt.Errorf without %w
ErrorfNew(msg, ctx) == [msgs |-> <<msg>>, is |-> {}, ctx |-> ctx]

----------------------------------------------------------------------------
(* Maps *)

EmptyMap == [k \in {} |-> 0]

Put(m, k, v) == [x \in (DOMAIN m) \cup {k} |-> IF x = k THEN v ELSE m[x]]

----------------------------------------------------------------------------
(* The OS facilities *)

KeyOf(row) == <<row.InterfaceLUID, row.DestinationPrefix, row.NextHop>>

HasKey(tbl, key) == \E i \in 1..Len(tbl) : KeyOf(tbl[i]) = key

InsertAt(s, p, x) == SubSeq(s, 1, p - 1) \o <<x>> \o SubSeq(s, p, Len(s))

RemoveKey(tbl, key) == SelectSeq(tbl, LAMBDA row : KeyOf(row) # key)

\* winipcfg.GetAdaptersAddresses
listAdapters(adps, ok) ==
    IF ok THEN [adapters |-> adps, err |-> Nil]
    ELSE [adapters |-> <<>>, err |-> OsError("OtherOsError")]

\* winipcfg.GetIPForwardTable2
listRoutes(tbl, ok) ==
    IF ok THEN [rows |-> tbl, err |-> Nil]
    ELSE [rows |-> <<>>, err |-> OsError("OtherOsError")]

\* winipcfg.LUIDFromIndex
resolveIndexToStableId(adps, index) ==
    IF \E i \in 1..Len(adps) : adps[i].Index = index
    THEN [luid |-> (CHOOSE l \in {adps[i].LUID : i \in 1..Len(adps)} :
                        \E i \in 1..Len(adps) : adps[i].Index = index /\ adps[i].LUID = l),
          err |-> Nil]
    ELSE [luid |-> 0, err |-> OsError("InterfaceNotFound")]

\* winipcfg.LUID.AddRoute; the OS chooses where the row enumerates (pos)
osAddRoute(tbl, luid, destination, nextHop, metric, pos, fail) ==
    IF HasKey(tbl, <<luid, destination, nextHop>>)
    THEN [table |-> tbl, err |-> OsError("ERROR_OBJECT_ALREADY_EXISTS")]
    ELSE IF fail THEN [table |-> tbl, err |-> OsError("OtherOsError")]
    ELSE [table |-> InsertAt(tbl, pos,
                       [InterfaceLUID |-> luid, DestinationPrefix |-> destination,
                        NextHop |-> nextHop, Metric |-> metric]),
          err |-> Nil]

\* winipcfg.LUID.DeleteRoute
osDeleteRoute(tbl, luid, destination, nextHop, fail) ==
    IF ~HasKey(tbl, <<luid, destination, nextHop>>)
    THEN [table |-> tbl, err |-> OsError("ERROR_NOT_FOUND")]
    ELSE IF fail THEN [table |-> tbl, err |-> OsError("OtherOsError")]
    ELSE [table |-> RemoveKey(tbl, <<luid, destination, nextHop>>), err |-> Nil]

----------------------------------------------------------------------------
(* Interface cache *)

\* faulty variant: a later adapter replaces an earlier one under the same alias
RECURSIVE cacheLoopLastAlias(_, _, _)
cacheLoopLastAlias(adps, i, cache) ==
    IF i > Len(adps) THEN cache
    ELSE LET iface == adps[i]
             key == ToLower(iface.Alias)
         IN cacheLoopLastAlias(adps, i + 1,
                [byLUID |-> Put(cache.byLUID, iface.LUID, iface),
                 byIndex |-> Put(cache.byIndex, iface.Index, iface),
                 byAlias |-> Put(cache.byAlias, key, iface)])

RECURSIVE cacheLoop(_, _, _)
cacheLoop(adps, i, cache) ==
    IF i > Len(adps) THEN cache
    ELSE LET iface == adps[i]
             key == ToLower(iface.Alias)
         IN cacheLoop(adps, i + 1,
                [byLUID |-> Put(cache.byLUID, iface.LUID, iface),
                 byIndex |-> Put(cache.byIndex, iface.Index, iface),
                 byAlias |-> IF key \in DOMAIN cache.byAlias
                             THEN cache.byAlias
                             ELSE Put(cache.byAlias, key, iface)])

newInterfaceCache(adps, ok) ==
    LET os == listAdapters(adps, ok)
    IN IF os.err # Nil
       THEN [cache |-> [byLUID |-> EmptyMap, byIndex |-> EmptyMap, byAlias |-> EmptyMap],
             err |-> Errorf("failed to get adapters addresses", <<>>, os.err)]
       ELSE [cache |-> cacheLoop(os.adapters, 1,
                          [byLUID |-> EmptyMap, byIndex |-> EmptyMap, byAlias |-> EmptyMap]),
             err |-> Nil]

NoInterface == [Index |-> 0, LUID |-> 0, Alias |-> <<>>]

findInterface(c, identifier) ==
    LET p == ParseUint(identifier)
    IN IF p.ok /\ p.val \in DOMAIN c.byIndex
       THEN [iface |-> c.byIndex[p.val], err |-> Nil]
       ELSE IF ToLower(identifier) \in DOMAIN c.byAlias
       THEN [iface |-> c.byAlias[ToLower(identifier)], err |-> Nil]
       ELSE [iface |-> NoInterface,
             err |-> Errorf("interface not found", <<identifier>>, ErrNotFound)]

----------------------------------------------------------------------------
(* Filters and options *)

Option(type, kind, dest, index, alias, metric, action) ==
    [type |-> type, kind |-> kind, dest |-> dest, index |-> index,
     alias |-> alias, metric |-> metric, action |-> action]

WithDestinationPrefix(prefix) == Option("FilterOption", "dest", prefix, 0, <<>>, 0, 0)
WithInterfaceIndex(index) == Option("FilterOption", "index", "", index, <<>>, 0, 0)
WithInterfaceAlias(alias) == Option("FilterOption", "alias", "", 0, alias, 0, 0)
WithMetric(metric) == Option("FilterOption", "metric", "", 0, <<>>, metric, 0)

ErrorActionContinue == 0
ErrorActionStop == 1

ErrorActionOpt(a) == Option("ErrorAction", "", "", 0, <<>>, 0, a)

\* a value that is neither a FilterOption nor an ErrorAction
OtherOpt == Option("string", "", "", 0, <<>>, 0, 0)

\* calling the closure f on route r
Filter(f, r) ==
    CASE f.kind = "dest" -> r.Destination = f.dest
      [] f.kind = "index" -> r.Interface.Index = f.index
      [] f.kind = "alias" -> EqualFold(r.Interface.Alias, f.alias)
      [] OTHER -> r.Metric = f.metric

\* faulty variant: only the first filter is applied
matchLoopFirstOnly(filters, j, route) ==
    Len(filters) = 0 \/ Filter(filters[1], route)

\* the inner loop of GetRoutes: stop at the first filter that rejects
RECURSIVE matchLoop(_, _, _)
matchLoop(filters, j, route) ==
    IF j > Len(filters) THEN TRUE
    ELSE IF ~Filter(filters[j], route) THEN FALSE
    ELSE matchLoop(filters, j + 1, route)

RECURSIVE aggregateLoop(_, _, _, _, _)
aggregateLoop(baseRoutes, i, cache, filters, routes) ==
    IF i > Len(baseRoutes) THEN routes
    ELSE LET baseRoute == baseRoutes[i]
         IN IF baseRoute.InterfaceLUID \notin DOMAIN cache.byLUID
            THEN aggregateLoop(baseRoutes, i + 1, cache, filters, routes)
            ELSE LET route == [Destination |-> baseRoute.DestinationPrefix,
                               NextHop |-> baseRoute.NextHop,
                               Interface |-> cache.byLUID[baseRoute.InterfaceLUID],
                               Metric |-> baseRoute.Metric]
                 IN aggregateLoop(baseRoutes, i + 1, cache, filters,
                        IF matchLoop(filters, 1, route)
                        THEN Append(routes, route) ELSE routes)

\* GetRoutes: [routes, err, calls]; calls are the OS calls issued
GetRoutes(tbl, adps, filters, adpOk, tblOk) ==
    LET c == newInterfaceCache(adps, adpOk)
        base == listRoutes(tbl, tblOk)
    IN IF c.err # Nil
       THEN [routes |-> <<>>, calls |-> <<"listAdapters">>,
             err |-> Errorf("failed to build interface cache", <<>>, c.err)]
       ELSE IF base.err # Nil
       THEN [routes |-> <<>>, calls |-> <<"listAdapters", "listRoutes">>,
             err |-> Errorf("failed to get base routing table", <<>>, base.err)]
       ELSE [routes |-> aggregateLoop(base.rows, 1, c.cache, filters, <<>>),
             calls |-> <<"listAdapters", "listRoutes">>,
             err |-> Nil]

----------------------------------------------------------------------------
(* Mutation engine *)

\* faulty variant: an existing route is reported like any other failure
AddRouteUnclassified(tbl, adps, destination, nextHop, ifaceIndex, metric, pos, fail) ==
    LET l == resolveIndexToStableId(adps, ifaceIndex)
        os == osAddRoute(tbl, l.luid, destination, nextHop, metric, pos, fail)
    IN IF l.err # Nil
       THEN [table |-> tbl, calls |-> <<"resolveIndexToStableId">>, os |-> l.err,
             err |-> Errorf("failed to convert interface index to LUID", <<>>, l.err)]
       ELSE [table |-> os.table, calls |-> <<"resolveIndexToStableId", "osAddRoute">>,
             os |-> os.err,
             err |-> IF os.err # Nil THEN Errorf("failed to create route", <<>>, os.err)
                     ELSE Nil]

\* AddRoute: [table, err, calls, os]
AddRoute(tbl, adps, destination, nextHop, ifaceIndex, metric, pos, fail) ==
    LET l == resolveIndexToStableId(adps, ifaceIndex)
        os == osAddRoute(tbl, l.luid, destination, nextHop, metric, pos, fail)
    IN IF l.err # Nil
       THEN [table |-> tbl, calls |-> <<"resolveIndexToStableId">>, os |-> l.err,
             err |-> Errorf("failed to convert interface index to LUID", <<>>, l.err)]
       ELSE IF os.err # Nil
       THEN [table |-> os.table, calls |-> <<"resolveIndexToStableId", "osAddRoute">>,
             os |-> os.err,
             err |-> IF "ERROR_OBJECT_ALREADY_EXISTS" \in os.err.is
                     THEN Errorf("route already exists", <<destination>>, os.err)
                     ELSE Errorf("failed to create route", <<>>, os.err)]
       ELSE [table |-> os.table, calls |-> <<"resolveIndexToStableId", "osAddRoute">>,
             os |-> Nil, err |-> Nil]

\* faulty variant: a missing route is reported like any other failure
deleteRouteErrorGeneric(destination, osErr) ==
    Errorf("failed to delete route", <<>>, osErr)

\* the error DeleteRoute returns for a failed OS delete
deleteRouteError(destination, osErr) ==
    IF "ERROR_NOT_FOUND" \in osErr.is
    THEN Errorf("route not found", <<destination>>, ErrNotFound)
    ELSE Errorf("failed to delete route", <<>>, osErr)

\* DeleteRoute: [table, err, calls, os]
DeleteRoute(tbl, adps, destination, nextHop, ifaceIndex, fail) ==
    LET l == resolveIndexToStableId(adps, ifaceIndex)
        os == osDeleteRoute(tbl, l.luid, destination, nextHop, fail)
    IN IF l.err # Nil
       THEN [table |-> tbl, calls |-> <<"resolveIndexToStableId">>, os |-> l.err,
             err |-> Errorf("failed to convert interface index to LUID", <<>>, l.err)]
       ELSE IF os.err # Nil
       THEN [table |-> os.table, calls |-> <<"resolveIndexToStableId", "osDeleteRoute">>,
             os |-> os.err, err |-> deleteRouteError(destination, os.err)]
       ELSE [table |-> os.table, calls |-> <<"resolveIndexToStableId", "osDeleteRoute">>,
             os |-> Nil, err |-> Nil]

\* faulty variant: the delete is keyed by interface and destination only
RouteDeleteByDestination(tbl, r, fail) ==
    LET hit == \E i \in 1..Len(tbl) : /\ tbl[i].InterfaceLUID = r.Interface.LUID
                                      /\ tbl[i].DestinationPrefix = r.Destination
    IN IF ~hit THEN [table |-> tbl, err |-> OsError("ERROR_NOT_FOUND")]
       ELSE IF fail THEN [table |-> tbl, err |-> OsError("OtherOsError")]
       ELSE [table |-> SelectSeq(tbl, LAMBDA row : ~(/\ row.InterfaceLUID = r.Interface.LUID
                                                     /\ row.DestinationPrefix = r.Destination)),
             err |-> Nil]

\* Route.Delete: [table, err]
RouteDelete(tbl, r, fail) ==
    osDeleteRoute(tbl, r.Interface.LUID, r.Destination, r.NextHop, fail)

\* faulty variant: an ErrorAction option is accepted and ignored
RECURSIVE extractLoopIgnoreAction(_, _, _, _)
extractLoopIgnoreAction(opts, i, filters, errorAction) ==
    IF i > Len(opts)
    THEN [filters |-> filters, errorAction |-> errorAction, err |-> Nil]
    ELSE IF opts[i].type = "FilterOption"
    THEN extractLoopIgnoreAction(opts, i + 1, Append(filters, opts[i]), errorAction)
    ELSE IF opts[i].type = "ErrorAction"
    THEN extractLoopIgnoreAction(opts, i + 1, filters, errorAction)
    ELSE [filters |-> <<>>, errorAction |-> 0,
          err |-> ErrorfNew("unsupported option type", <<opts[i].type>>)]

\* faulty variant: an option of another type is skipped
RECURSIVE extractLoopSkip(_, _, _, _)
extractLoopSkip(opts, i, filters, errorAction) ==
    IF i > Len(opts)
    THEN [filters |-> filters, errorAction |-> errorAction, err |-> Nil]
    ELSE IF opts[i].type = "FilterOption"
    THEN extractLoopSkip(opts, i + 1, Append(filters, opts[i]), errorAction)
    ELSE IF opts[i].type = "ErrorAction"
    THEN extractLoopSkip(opts, i + 1, filters, opts[i].action)
    ELSE extractLoopSkip(opts, i + 1, filters, errorAction)

RECURSIVE extractLoop(_, _, _, _)
extractLoop(opts, i, filters, errorAction) ==
    IF i > Len(opts)
    THEN [filters |-> filters, errorAction |-> errorAction, err |-> Nil]
    ELSE IF opts[i].type = "FilterOption"
    THEN extractLoop(opts, i + 1, Append(filters, opts[i]), errorAction)
    ELSE IF opts[i].type = "ErrorAction"
    THEN extractLoop(opts, i + 1, filters, opts[i].action)
    ELSE [filters |-> <<>>, errorAction |-> 0,
          err |-> ErrorfNew("unsupported option type", <<opts[i].type>>)]

\* faulty variant: the default policy is to stop
extractRouteParametersStopDefault(opts) == extractLoop(opts, 1, <<>>, ErrorActionStop)

extractRouteParameters(opts) == extractLoop(opts, 1, <<>>, ErrorActionContinue)

\* the error DeleteRoutes builds for a failed per-route delete
deleteRoutesError(route, delErr) ==
    Errorf("failed to delete route (dest, iface)",
           <<route.Destination, route.Interface.Alias>>, delErr)

----------------------------------------------------------------------------
(* Command-line front end *)

\* netip.ParsePrefix / netip.ParseAddr on the strings of the model: the
\* well-formed ones are the members of valid
ParseOk(str, valid) == str \in valid

\* Execute: the exit status for the error the subcommand's RunE returned
Execute(runErr) == IF runErr # Nil THEN 1 ELSE 0

\* deleteCmd: what RunE returns for DeleteRoutes' two results
deleteCmdResult(partialErrs, err) == err

\* RunE of get, add and delete-one returns the core operation's error
runEResult(err) == err

----------------------------------------------------------------------------
(* State *)

NoArgs == [destination |-> "", nextHop |-> "", ifaceIndex |-> 0, metric |-> 0]

Idle ==
    [op |-> "none", caller |-> "api", invoked |-> FALSE, opts |-> <<>>,
     filters |-> <<>>, args |-> NoArgs, added |-> NoArgs, token |-> <<>>,
     iface |-> NoInterface, osList |-> <<TRUE, TRUE>>, routes |-> <<>>, listed |-> FALSE,
     errorAction |-> ErrorActionContinue, i |-> 0, delLog |-> <<>>, calls |-> <<>>,
     osErr |-> Nil, err |-> Nil, partialErrs |-> <<>>, runErr |-> Nil, exit |-> 0]

\* no call has been made yet in this run
Fresh == last.op = "none"

\* a call returns to its caller: the library's caller, or a subcommand's RunE
\* and then Execute
Return(rec, runErr) ==
    /\ pc' = "idle"
    /\ last' = [rec EXCEPT !.runErr = IF rec.caller = "cli" THEN runErr ELSE Nil,
                           !.exit = IF rec.caller = "cli" THEN Execute(runErr) ELSE 0]

Eth == [Index |-> 1, LUID |-> 101, Alias |-> <<"e">>]
Eth2 == [Index |-> 2, LUID |-> 102, Alias |-> <<"E">>]
Wifi == [Index |-> 2, LUID |-> 102, Alias |-> <<"1">>]

AdapterSets == {<<Eth>>, <<Eth, Eth2>>, <<Eth, Wifi>>}

Args(d, nh, idx, m) == [destination |-> d, nextHop |-> nh, ifaceIndex |-> idx, metric |-> m]

\* the routes the runs add
AddInputs ==
    {Args("10.0.0.0/8", "0.0.0.0", 1, 5), Args("10.0.0.0/8", "0.0.0.0", 1, 0),
     Args("10.0.0.0/8", "10.0.0.1", 1, 0), Args("10.1.0.0/16", "0.0.0.0", 1, 5),
     Args("10.0.0.0/8", "0.0.0.0", 2, 0)}

Indices == {1, 2, 3}

Row(luid, d, nh, m) ==
    [InterfaceLUID |-> luid, DestinationPrefix |-> d, NextHop |-> nh, Metric |-> m]

\* a row left behind by an adapter that is no longer enumerated
OrphanRow == Row(103, "10.0.0.0/8", "0.0.0.0", 5)

\* the rows a routing table holds when a run starts: one per key
RowUniverse ==
    {Row(100 + a.ifaceIndex, a.destination, a.nextHop, a.metric) :
         a \in AddInputs \ {Args("10.0.0.0/8", "0.0.0.0", 1, 0)}}
        \cup {OrphanRow}

SeqsUpTo(S, n) == UNION {[1..k -> S] : k \in 0..n}

\* the OS keeps one row per (LUID, destination, next hop)
UniqueKeys(tbl) == \A i, j \in 1..Len(tbl) : KeyOf(tbl[i]) = KeyOf(tbl[j]) => i = j

Tables == {t \in SeqsUpTo(RowUniverse, MaxRoutes) : UniqueKeys(t)}

FilterUniverse ==
    {WithDestinationPrefix("10.0.0.0/8"), WithInterfaceIndex(1),
     WithInterfaceAlias(<<"E">>), WithMetric(5)}

OptUniverse ==
    (FilterUniverse \ {WithInterfaceIndex(1)})
        \cup {ErrorActionOpt(ErrorActionContinue), ErrorActionOpt(ErrorActionStop)}
        \cup {OtherOpt}

\* the outcomes of the two enumeration calls of a listing
OsListing == {<<TRUE, TRUE>>, <<FALSE, TRUE>>, <<TRUE, FALSE>>}

Init ==
    /\ adapters \in AdapterSets
    /\ table \in {<<>>, <<OrphanRow>>}
    /\ pre = table
    /\ pc = "idle"
    /\ last = Idle

\* any state the OS can be in when a call starts
InitAny ==
    /\ adapters \in {<<Eth, Eth2>>, <<Eth, Wifi>>}
    /\ table \in Tables
    /\ pre = table
    /\ pc = "idle"
    /\ last = Idle

----------------------------------------------------------------------------
(* Library calls *)

GetRoutesCall(filters, caller, os) ==
    LET r == GetRoutes(table, adapters, filters, os[1], os[2])
        prev == IF last.op = "AddRoute" /\ last.err = Nil THEN last.args ELSE NoArgs
    IN /\ Return([Idle EXCEPT !.op = "GetRoutes", !.caller = caller, !.invoked = TRUE,
                              !.filters = filters, !.added = prev, !.osList = os,
                              !.routes = r.routes, !.listed = (r.err = Nil),
                              !.calls = r.calls, !.err = r.err], runEResult(r.err))
       /\ pre' = table
       /\ UNCHANGED <<adapters, table>>

CallGetRoutes ==
    /\ pc = "idle"
    /\ \E filters \in SeqsUpTo(FilterUniverse, MaxOpts), os \in OsListing :
         GetRoutesCall(filters, "api", os)

\* GetRoutes(WithDestinationPrefix(d))
CallGetRoutesByDestination ==
    /\ pc = "idle"
    /\ \E d \in Dests, os \in OsListing :
         GetRoutesCall(<<WithDestinationPrefix(d)>>, "api", os)

AddRouteCall(a, caller, pos, fail) ==
    LET r == AddRoute(table, adapters, a.destination, a.nextHop, a.ifaceIndex, a.metric,
                      pos, fail)
    IN /\ table' = r.table
       /\ Return([Idle EXCEPT !.op = "AddRoute", !.caller = caller, !.invoked = TRUE,
                              !.args = a, !.calls = r.calls, !.osErr = r.os,
                              !.err = r.err], runEResult(r.err))
       /\ pre' = table
       /\ UNCHANGED adapters

CallAddRoute ==
    /\ pc = "idle"
    /\ Len(table) < MaxRoutes
    /\ \E a \in AddInputs, pos \in 1..(Len(table) + 1), fail \in BOOLEAN :
         AddRouteCall(a, "api", pos, fail)

DeleteRouteCall(a, caller, fail) ==
    LET r == DeleteRoute(table, adapters, a.destination, a.nextHop, a.ifaceIndex, fail)
    IN /\ table' = r.table
       /\ Return([Idle EXCEPT !.op = "DeleteRoute", !.caller = caller, !.invoked = TRUE,
                              !.args = a, !.calls = r.calls, !.osErr = r.os,
                              !.err = r.err], runEResult(r.err))
       /\ pre' = table
       /\ UNCHANGED adapters

CallDeleteRoute ==
    /\ pc = "idle"
    /\ \E d \in Dests, nh \in NextHops, idx \in Indices, fail \in BOOLEAN :
         DeleteRouteCall(Args(d, nh, idx, 0), "api", fail)

\* DeleteRoutes up to its loop: the options, the listing, the empty listing
DeleteRoutesEnter(opts, caller, os) ==
    LET p == extractRouteParameters(opts)
        g == GetRoutes(table, adapters, p.filters, os[1], os[2])
        rec == [Idle EXCEPT !.op = "DeleteRoutes", !.caller = caller, !.invoked = TRUE,
                            !.opts = opts, !.filters = p.filters, !.osList = os,
                            !.errorAction = p.errorAction]
    IN /\ pre' = table
       /\ UNCHANGED <<adapters, table>>
       /\ IF p.err # Nil
          THEN Return([rec EXCEPT !.err = p.err], deleteCmdResult(<<>>, p.err))
          ELSE IF g.err # Nil
          THEN LET e == Errorf("failed to find routes for deletion", <<>>, g.err)
               IN Return([rec EXCEPT !.calls = g.calls, !.err = e],
                         deleteCmdResult(<<>>, e))
          ELSE IF Len(g.routes) = 0
          THEN Return([rec EXCEPT !.calls = g.calls, !.listed = TRUE],
                      deleteCmdResult(<<>>, Nil))
          ELSE /\ pc' = "deleting"
               /\ last' = [rec EXCEPT !.calls = g.calls, !.listed = TRUE,
                                      !.routes = g.routes, !.i = 1]

CallDeleteRoutes ==
    /\ pc = "idle"
    /\ \E opts \in SeqsUpTo(OptUniverse, MaxOpts), os \in OsListing :
         DeleteRoutesEnter(opts, "api", os)

\* one iteration of the loop of DeleteRoutes, and the return after the last one
DeleteRoutesLoop ==
    /\ pc = "deleting"
    /\ \E fail \in BOOLEAN :
         LET route == last.routes[last.i]
             d == RouteDelete(table, route, fail)
             wrappedErr == deleteRoutesError(route, d.err)
             rec == [last EXCEPT !.calls = Append(@, "osDeleteRoute"),
                                 !.delLog = Append(@, [key |-> <<route.Interface.LUID,
                                                                 route.Destination,
                                                                 route.NextHop>>,
                                                       os |-> d.err,
                                                       ret |-> IF d.err # Nil
                                                               THEN wrappedErr ELSE Nil])]
         IN /\ table' = d.table
            /\ IF d.err # Nil /\ last.errorAction = ErrorActionStop
               THEN Return([rec EXCEPT !.err = wrappedErr, !.partialErrs = <<>>],
                           deleteCmdResult(<<>>, wrappedErr))
               ELSE LET errs == IF d.err # Nil THEN Append(last.partialErrs, wrappedErr)
                                ELSE last.partialErrs
                    IN IF last.i = Len(last.routes)
                       THEN Return([rec EXCEPT !.partialErrs = errs],
                                   deleteCmdResult(errs, Nil))
                       ELSE /\ pc' = "deleting"
                            /\ last' = [rec EXCEPT !.partialErrs = errs, !.i = @ + 1]
    /\ UNCHANGED <<adapters, pre>>

----------------------------------------------------------------------------
(* Subcommands of wroute *)

BadString == "bad"

CliGet ==
    /\ pc = "idle"
    /\ \E destStr \in {"", "10.0.0.0/8", BadString}, ifIndex \in {0, 1},
          ifAlias \in {<<>>, <<"E">>}, metricChanged \in BOOLEAN, os \in OsListing :
         IF destStr # "" /\ ~ParseOk(destStr, Dests)
         THEN /\ Return([Idle EXCEPT !.op = "GetRoutes", !.caller = "cli"],
                        ErrorfNew("invalid destination prefix", <<destStr>>))
              /\ pre' = table
              /\ UNCHANGED <<adapters, table>>
         ELSE GetRoutesCall(
                  (IF destStr # "" THEN <<WithDestinationPrefix(destStr)>> ELSE <<>>)
                      \o (IF ifIndex > 0 THEN <<WithInterfaceIndex(ifIndex)>> ELSE <<>>)
                      \o (IF ifAlias # <<>> THEN <<WithInterfaceAlias(ifAlias)>> ELSE <<>>)
                      \o (IF metricChanged THEN <<WithMetric(5)>> ELSE <<>>),
                  "cli", os)

CliAdd ==
    /\ pc = "idle"
    /\ Len(table) < MaxRoutes
    /\ \E a \in AddInputs, destStr \in {"", BadString}, nextHopStr \in {"", BadString},
          pos \in 1..(Len(table) + 1), fail \in BOOLEAN :
         IF destStr = BadString \/ nextHopStr = BadString
         THEN /\ Return([Idle EXCEPT !.op = "AddRoute", !.caller = "cli"],
                        IF destStr = BadString
                        THEN ErrorfNew("invalid destination prefix", <<destStr>>)
                        ELSE ErrorfNew("invalid next-hop address", <<nextHopStr>>))
              /\ pre' = table
              /\ UNCHANGED <<adapters, table>>
         ELSE AddRouteCall(a, "cli", pos, fail)

CliDeleteOne ==
    /\ pc = "idle"
    /\ \E d \in Dests \cup {BadString}, nh \in NextHops \cup {BadString}, idx \in Indices,
          fail \in BOOLEAN :
         IF ~ParseOk(d, Dests) \/ ~ParseOk(nh, NextHops)
         THEN /\ Return([Idle EXCEPT !.op = "DeleteRoute", !.caller = "cli"],
                        IF ~ParseOk(d, Dests)
                        THEN ErrorfNew("invalid destination prefix", <<d>>)
                        ELSE ErrorfNew("invalid next-hop address", <<nh>>))
              /\ pre' = table
              /\ UNCHANGED <<adapters, table>>
         ELSE DeleteRouteCall(Args(d, nh, idx, 0), "cli", fail)

CliDelete ==
    /\ pc = "idle"
    /\ \E destStr \in {"", "10.0.0.0/8", BadString}, ifIndex \in {0, 1},
          ifAlias \in {<<>>, <<"E">>}, metricChanged \in BOOLEAN,
          stopOnError \in BOOLEAN, os \in OsListing :
         LET filters ==
                 (IF destStr # "" THEN <<WithDestinationPrefix(destStr)>> ELSE <<>>)
                     \o (IF ifIndex > 0 THEN <<WithInterfaceIndex(ifIndex)>> ELSE <<>>)
                     \o (IF ifAlias # <<>> THEN <<WithInterfaceAlias(ifAlias)>> ELSE <<>>)
                     \o (IF metricChanged THEN <<WithMetric(5)>> ELSE <<>>)
             allOpts == filters \o (IF stopOnError THEN <<ErrorActionOpt(ErrorActionStop)>>
                                    ELSE <<>>)
         IN IF destStr # "" /\ ~ParseOk(destStr, Dests)
            THEN /\ Return([Idle EXCEPT !.op = "DeleteRoutes", !.caller = "cli"],
                           ErrorfNew("invalid destination prefix", <<destStr>>))
                 /\ pre' = table
                 /\ UNCHANGED <<adapters, table>>
            ELSE IF Len(filters) = 0
            THEN /\ Return([Idle EXCEPT !.op = "DeleteRoutes", !.caller = "cli"],
                           ErrorfNew("at least one filter must be provided", <<>>))
                 /\ pre' = table
                 /\ UNCHANGED <<adapters, table>>
            ELSE DeleteRoutesEnter(allOpts, "cli", os)

----------------------------------------------------------------------------
(* Another actor on the same routing table *)

EnvRemoveRoute ==
    /\ pc = "deleting"
    /\ table # <<>>
    /\ \E k \in 1..Len(table) : table' = RemoveKey(table, KeyOf(table[k]))
    /\ UNCHANGED <<adapters, pre, pc, last>>

----------------------------------------------------------------------------
(* Interface lookup *)

AliasPool == {<<>>, <<"e">>, <<"E">>, <<"1">>, <<"0", "1">>, <<"e", "1">>}

FindIndices == {1, 10, 11}

FindAdapters == {[Index |-> i, LUID |-> 100 + i, Alias |-> a] : i \in FindIndices, a \in AliasPool}

\* the OS gives every adapter its own index and LUID
UniqueIndex(adps) == \A i, j \in 1..Len(adps) : adps[i].Index = adps[j].Index => i = j

Tokens == SeqsUpTo(Chars, MaxLen)

InitFind ==
    /\ adapters \in {a \in SeqsUpTo(FindAdapters, MaxAdapters) : UniqueIndex(a)}
    /\ table = <<>>
    /\ pre = table
    /\ pc = "idle"
    /\ last = Idle

CallFindInterface ==
    /\ pc = "idle"
    /\ \E identifier \in Tokens :
         LET c == newInterfaceCache(adapters, TRUE)
             r == findInterface(c.cache, identifier)
         IN Return([Idle EXCEPT !.op = "findInterface", !.invoked = TRUE,
                                !.token = identifier, !.iface = r.iface, !.err = r.err], Nil)
    /\ UNCHANGED <<adapters, table, pre>>

----------------------------------------------------------------------------
(* Specifications *)

\* a caller of the library adding, deleting and listing single routes
Next ==
    \/ CallAddRoute
    \/ CallDeleteRoute
    \/ CallGetRoutesByDestination

Spec == Init /\ [][Next]_vars

\* one library call on any routing table
NextOnce ==
    \/ Fresh /\ CallGetRoutes
    \/ Fresh /\ CallDeleteRoutes
    \/ DeleteRoutesLoop

SpecOnce == InitAny /\ [][NextOnce]_vars

\* one run of wroute on any routing table
NextCli ==
    \/ Fresh /\ CliGet
    \/ Fresh /\ CliAdd
    \/ Fresh /\ CliDeleteOne
    \/ Fresh /\ CliDelete
    \/ DeleteRoutesLoop

SpecCli == InitAny /\ [][NextCli]_vars

\* one mutating library call; another actor removes rows during a batch delete
NextEnv ==
    \/ Fresh /\ CallAddRoute
    \/ Fresh /\ CallDeleteRoute
    \/ Fresh /\ CallDeleteRoutes
    \/ DeleteRoutesLoop
    \/ EnvRemoveRoute

SpecEnv == InitAny /\ [][NextEnv]_vars

\* one lookup in the cache of any adapter set
NextFind == Fresh /\ CallFindInterface

SpecFind == InitFind /\ [][NextFind]_vars

----------------------------------------------------------------------------
(* Properties *)

BothListed == <<TRUE, TRUE>>

Owners(row) == {k \in 1..Len(adapters) : adapters[k].LUID = row.InterfaceLUID}

Resolvable(row) == Owners(row) # {}

Owner(row) == adapters[CHOOSE k \in Owners(row) : TRUE]

RowSatisfies(f, row) ==
    \/ f.kind = "dest" /\ row.DestinationPrefix = f.dest
    \/ f.kind = "index" /\ Owner(row).Index = f.index
    \/ f.kind = "alias" /\ ToLower(Owner(row).Alias) = ToLower(f.alias)
    \/ f.kind = "metric" /\ row.Metric = f.metric

Matches(F, row) == Resolvable(row) /\ \A j \in 1..Len(F) : RowSatisfies(F[j], row)

Matched(tbl, F) == SelectSeq(tbl, LAMBDA row : Matches(F, row))

RowOfRoute(r) == Row(r.Interface.LUID, r.Destination, r.NextHop, r.Metric)

RowsOf(routes) == [k \in 1..Len(routes) |-> RowOfRoute(routes[k])]

RowSet(tbl) == {tbl[k] : k \in 1..Len(tbl)}

KeySet(tbl) == {KeyOf(tbl[k]) : k \in 1..Len(tbl)}

AdapterSet == {adapters[k] : k \in 1..Len(adapters)}

\* C1: when both enumeration calls succeed GetRoutes(F) succeeds and returns,
\* in enumeration order, exactly the rows whose LUID is in the directory and
\* that satisfy every predicate of F, each joined with its adapter; a row
\* whose LUID is absent is dropped without an error.
C1_GetRoutesReturnsMatchingRows ==
    (last.op = "GetRoutes" /\ last.invoked /\ last.osList = BothListed) =>
        /\ last.err = Nil
        /\ RowsOf(last.routes) = Matched(table, last.filters)
        /\ \A k \in 1..Len(last.routes) : last.routes[k].Interface \in AdapterSet

C1_Witness ==
    /\ last.op = "GetRoutes" /\ last.invoked /\ last.osList = BothListed
    /\ Len(last.filters) = 2
    /\ Len(last.routes) >= 1
    /\ \E row \in RowSet(table) : ~Resolvable(row)
    /\ \E row \in RowSet(table) : Resolvable(row) /\ ~Matches(last.filters, row)

ValidOpts(opts) == \A k \in 1..Len(opts) : opts[k].type \in {"FilterOption", "ErrorAction"}

Actions(opts) == SelectSeq(opts, LAMBDA o : o.type = "ErrorAction")

\* the policy the option list asks for
PolicyOf(opts) ==
    IF Actions(opts) = <<>> THEN ErrorActionContinue
    ELSE Actions(opts)[Len(Actions(opts))].action

FiltersOf(opts) == SelectSeq(opts, LAMBDA o : o.type = "FilterOption")

Failures(log) == {k \in 1..Len(log) : log[k].os # Nil}

Returned == pc = "idle" /\ last.op = "DeleteRoutes" /\ last.invoked

\* C2: DeleteRoutes under ErrorActionContinue (also by default), the listing
\* succeeding and matching N routes of which M deletes fail: all N deletes
\* are attempted, the fatal error is nil, the accumulated list has length M,
\* and every route whose delete succeeded is absent from a following GetRoutes.
C2_ContinueCollectsErrors ==
    (/\ Returned /\ ValidOpts(last.opts) /\ last.osList = BothListed
     /\ PolicyOf(last.opts) = ErrorActionContinue) =>
        /\ Len(last.delLog) = Len(Matched(pre, FiltersOf(last.opts)))
        /\ last.err = Nil
        /\ Len(last.partialErrs) = Cardinality(Failures(last.delLog))
        /\ LET after == KeySet(RowsOf(GetRoutes(table, adapters, <<>>, TRUE, TRUE).routes))
           IN \A k \in 1..Len(last.delLog) :
                  last.delLog[k].os = Nil => last.delLog[k].key \notin after

C2_Witness ==
    /\ Returned /\ ValidOpts(last.opts) /\ last.osList = BothListed
    /\ Actions(last.opts) = <<>>
    /\ Len(last.delLog) = 3
    /\ Cardinality(Failures(last.delLog)) = 1
    /\ last.delLog[2].os # Nil

\* C3: DeleteRoutes under ErrorActionStop returns at the first failing delete
\* with a non-nil fatal error and a nil accumulated list; the routes before
\* it are deleted, and no delete is issued for the routes after it, which
\* stay in the table.
C3_StopAtFirstFailure ==
    (/\ Returned /\ ValidOpts(last.opts) /\ last.osList = BothListed
     /\ PolicyOf(last.opts) = ErrorActionStop
     /\ Failures(last.delLog) # {}) =>
        /\ Failures(last.delLog) = {Len(last.delLog)}
        /\ last.err # Nil
        /\ last.partialErrs = <<>>
        /\ LET m == Matched(pre, FiltersOf(last.opts))
           IN \A k \in 1..Len(m) :
                  /\ k < Len(last.delLog) => m[k] \notin RowSet(table)
                  /\ k <= Len(last.delLog) => last.delLog[k].key = KeyOf(m[k])
                  /\ k >= Len(last.delLog) => m[k] \in RowSet(table)

C3_Witness ==
    /\ Returned /\ PolicyOf(last.opts) = ErrorActionStop
    /\ Len(last.routes) = 3
    /\ Len(last.delLog) = 2
    /\ last.delLog[2].os # Nil
    /\ last.err # Nil

\* C4: an option that is neither a FilterOption nor an ErrorAction, at any
\* position, makes DeleteRoutes return a fatal "unsupported option" error and
\* a nil accumulated list without any OS call; the table is unchanged.
C4_InvalidOptionBeforeAnyOsCall ==
    (last.op = "DeleteRoutes" /\ last.invoked /\ ~ValidOpts(last.opts)) =>
        /\ pc = "idle"
        /\ last.err # Nil
        /\ last.err.msgs = <<"unsupported option type">>
        /\ last.partialErrs = <<>>
        /\ last.calls = <<>>
        /\ last.delLog = <<>>
        /\ table = pre

C4_Witness ==
    /\ last.op = "DeleteRoutes" /\ last.invoked
    /\ Len(last.opts) = 2
    /\ last.opts[1].type = "FilterOption"
    /\ last.opts[2].type = "string"
    /\ Matched(pre, <<last.opts[1]>>) # <<>>

\* the LUID the OS gives for an interface index, 0 when it has none
LuidOfIndex(index) ==
    IF \E k \in 1..Len(adapters) : adapters[k].Index = index
    THEN adapters[CHOOSE k \in 1..Len(adapters) : adapters[k].Index = index].LUID
    ELSE 0

ArgsKey(a) == <<LuidOfIndex(a.ifaceIndex), a.destination, a.nextHop>>

\* C5: after a successful AddRoute(d, nextHop, ifaceIndex, metric) the next
\* GetRoutes(WithDestinationPrefix(d)) that succeeds contains the added
\* route; an AddRoute of a tuple already in the table fails with "route
\* already exists" and leaves the table unchanged.
C5_AddedRouteIsListed ==
    /\ (/\ last.op = "GetRoutes" /\ last.added # NoArgs /\ last.osList = BothListed
        /\ last.filters = <<WithDestinationPrefix(last.added.destination)>>) =>
           \E k \in 1..Len(last.routes) :
               /\ last.routes[k].Destination = last.added.destination
               /\ last.routes[k].NextHop = last.added.nextHop
               /\ last.routes[k].Interface.Index = last.added.ifaceIndex
               /\ last.routes[k].Metric = last.added.metric
    /\ (last.op = "AddRoute" /\ ArgsKey(last.args) \in KeySet(pre)) =>
           /\ last.err # Nil
           /\ last.err.msgs[1] = "route already exists"
           /\ "ERROR_OBJECT_ALREADY_EXISTS" \in last.err.is
           /\ table = pre

C5_Witness ==
    /\ last.op = "GetRoutes" /\ last.added # NoArgs /\ last.osList = BothListed
    /\ last.filters = <<WithDestinationPrefix(last.added.destination)>>
    /\ Len(table) = 3
    /\ Len(last.routes) = 1

\* C6: a DeleteRoute that succeeds removes exactly the row with its
\* (interface, destination, next hop) and that row was there; on a tuple that
\* is in the table it fails only when the OS refuses the delete; on a tuple
\* of a known interface that is not in the table (so also the second time)
\* it fails with an error matching ErrNotFound; a tuple that matches no row
\* deletes nothing.
C6_DeleteRouteExactMatch ==
    (last.op = "DeleteRoute") =>
        /\ last.err = Nil =>
               /\ ArgsKey(last.args) \in KeySet(pre)
               /\ table = RemoveKey(pre, ArgsKey(last.args))
               /\ Len(table) = Len(pre) - 1
        /\ (ArgsKey(last.args) \in KeySet(pre) /\ last.err # Nil) =>
               "OtherOsError" \in last.err.is
        /\ (LuidOfIndex(last.args.ifaceIndex) # 0 /\ ArgsKey(last.args) \notin KeySet(pre)) =>
               /\ last.err # Nil
               /\ last.err.msgs[1] = "route not found"
               /\ "ErrNotFound" \in last.err.is
        /\ ArgsKey(last.args) \notin KeySet(pre) => table = pre
        /\ last.err # Nil => table = pre

C6_Witness ==
    /\ last.op = "DeleteRoute" /\ last.err = Nil
    /\ Len(pre) = 3 /\ Len(table) = 2
    /\ \E row \in RowSet(table) :
           /\ row.InterfaceLUID = LuidOfIndex(last.args.ifaceIndex)
           /\ row.DestinationPrefix = last.args.destination
           /\ row.NextHop # last.args.nextHop

IsNumber(t) == t # <<>> /\ \A i \in 1..Len(t) : t[i] \in Digits

RECURSIVE NumberOf(_)
NumberOf(t) ==
    IF t = <<>> THEN 0
    ELSE 10 * NumberOf(SubSeq(t, 1, Len(t) - 1)) + DigitVal(t[Len(t)])

WithIndex(n) == {k \in 1..Len(adapters) : adapters[k].Index = n}

WithAlias(t) == {k \in 1..Len(adapters) : ToLower(adapters[k].Alias) = ToLower(t)}

First(S) == CHOOSE k \in S : \A j \in S : k <= j

C8_CliExitNonZeroOnAnyError ==
    (/\ pc = "idle" /\ last.caller = "cli" /\ last.invoked
     /\ (last.err # Nil \/ last.partialErrs # <<>>)) =>
        last.exit # 0

ErrorKind(e) ==
    CASE "ErrNotFound" \in e.is /\ e.msgs[1] = "route not found" -> "RouteNotFound"
      [] e.msgs[1] = "route already exists" -> "RouteAlreadyExists"
      [] e.msgs[1] = "failed to convert interface index to LUID" -> "InterfaceNotFound"
      [] e.msgs[1] = "failed to create route" -> "RouteAddFailed"
      [] e.msgs[1] \in {"failed to delete route", "failed to delete route (dest, iface)"}
             -> "RouteDeleteFailed"
      [] OTHER -> "unclassified"

ExpectedKind(op, osErr) ==
    CASE "ERROR_OBJECT_ALREADY_EXISTS" \in osErr.is -> "RouteAlreadyExists"
      [] "ERROR_NOT_FOUND" \in osErr.is -> "RouteNotFound"
      [] "InterfaceNotFound" \in osErr.is -> "InterfaceNotFound"
      [] OTHER -> IF op = "AddRoute" THEN "RouteAddFailed" ELSE "RouteDeleteFailed"

\* C9: every OS error that AddRoute, DeleteRoute or DeleteRoutes returns is
\* classified by its OS outcome, the per-route failures of DeleteRoutes the
\* same way as a DeleteRoute failure.
C9_OsErrorsClassified ==
    /\ (last.op \in {"AddRoute", "DeleteRoute"} /\ last.osErr # Nil) =>
           ErrorKind(last.err) = ExpectedKind(last.op, last.osErr)
    /\ (last.op = "DeleteRoutes") =>
           \A k \in Failures(last.delLog) :
               ErrorKind(last.delLog[k].ret) = ExpectedKind("DeleteRoute", last.delLog[k].os)

\* C10: DeleteRoutes issues its deletes for the keys of the routes its
\* listing matched, one per route and in listing order, and none when the
\* listing fails or matches nothing; every row that does not satisfy all the
\* predicates is still in the table, under either policy.
C10_DeletesOnlyMatchedRoutes ==
    (last.op = "DeleteRoutes" /\ last.invoked) =>
        /\ (~ValidOpts(last.opts) \/ last.osList # BothListed) => last.delLog = <<>>
        /\ ValidOpts(last.opts) =>
               LET m == Matched(pre, FiltersOf(last.opts))
               IN /\ Len(last.delLog) <= Len(m)
                  /\ \A k \in 1..Len(last.delLog) : last.delLog[k].key = KeyOf(m[k])
                  /\ \A row \in RowSet(pre) : row \notin RowSet(m) => row \in RowSet(table)
        /\ RowSet(table) \subseteq RowSet(pre)

C10_Witness ==
    /\ Returned /\ ValidOpts(last.opts)
    /\ last.filters = <<WithMetric(5)>>
    /\ Len(pre) = 3
    /\ Len(last.delLog) = 1 /\ last.delLog[1].os = Nil
    /\ Len(table) = 2
    /\ \E row \in RowSet(table) :
           /\ Resolvable(row)
           /\ <<row.InterfaceLUID, row.DestinationPrefix>>
                  = <<last.delLog[1].key[1], last.delLog[1].key[2]>>

====
